---- MODULE Spec2Model ----
(***************************************************************************)
(* Session controller of the ModelRiver browser client.                    *)
(*                                                                         *)
(* The repository holds two variants of ModelRiverClient:                  *)
(*   "channel" : connect({channelId, wsToken, ...})   (vue.ts 286-906)     *)
(*   "token"   : connect({wsToken}) with a JWT        (vue.ts 962-1388)    *)
(* Both are modelled; `variant` selects the one a behaviour runs.          *)
(*                                                                         *)
(* Every handler of the client is one operator from a client record to a   *)
(* client record, translated statement by statement; an action applies one *)
(* handler to the current state.  The Phoenix transport is the             *)
(* environment: every socket the client created may report open, error and *)
(* close, and every channel it joined may deliver join replies and         *)
(* messages, because the client's callbacks carry no guard on the socket   *)
(* they were registered on.                                                *)
(*                                                                         *)
(* Left out: step display names and durations, log output, URLs and topic  *)
(* names (no handler branches on them).                                    *)
(***************************************************************************)
EXTENDS Integers, Sequences, FiniteSets, TLC

\* ---------------------------------------------------------------- bounds
MaxStale == 1
MaxTicks == 1
MaxInflight == 1
MaxTimers == 1
TickMs == 300001
MaxSteps == 2
MaxExp == 2

\* ------------------------------------------------------- program constants
DEFAULT_REQUEST_TIMEOUT == 300000

NoRecord == [channelId |-> "", wsToken |-> "", timestamp |-> -1]
NoResponse == [status |-> "null", meta |-> "none", err |-> "none"]
Null == "null"

\* AIResponse payloads: the status discriminator, meta.status and error.message
Payloads ==
  { [status |-> "ai_generated", meta |-> "none", err |-> "none"],
    [status |-> "completed", meta |-> "none", err |-> "none"],
    [status |-> "success", meta |-> "none", err |-> "none"],
    [status |-> "SUCCESS", meta |-> "none", err |-> "none"],
    [status |-> "ok", meta |-> "none", err |-> "none"],
    [status |-> "processing", meta |-> "success", err |-> "none"],
    [status |-> "error", meta |-> "none", err |-> "none"],
    [status |-> "error", meta |-> "none", err |-> "boom"] }

\* the payloads the default specification delivers: one of each branch of handleResponse
CorePayloads ==
  {p \in Payloads : p.status \in {"ai_generated", "completed", "success"}
                    \/ (p.status = "error" /\ p.err = "none")}

\* ConnectOptions of the channel variant ("" is a missing field)
ValidOptions == [channelId |-> "c1", wsToken |-> "t1"]

ConnectOptionsSet ==
  { ValidOptions,
    [channelId |-> "", wsToken |-> "t1"],
    [channelId |-> "c1", wsToken |-> ""] }

\* wsToken values of the token variant
TokenSet == {"jwtValid", "jwtExpired", "bad"}

JoinReasons ==
  { "unauthorized_project_access", "invalid_channel_format", "invalid_project_uuid",
    "invalid_channel_uuid", "unknown", "rate_limited" }

ChannelErrorMessages == {"", "quota exceeded"}

\* what a registered 'response' listener does when it is called
Reactions == {"none", "reconnect", "connect"}

\* the events the caller registers callbacks for, and its callbacks
ListenEvents == {"connected", "disconnected"}

Callbacks == {"cb", "thrower"}

ListenerPairs == ListenEvents \X Callbacks

NoHandle == <<"none", "none">>

\* no function of utils.ts has been called
NoCall == [fn |-> "none"]

\* A Socket object the client has disconnected and dropped, which has not reported
\* its close yet: whether it is open, and the state of the channel joined on it.
StaleKinds == {"opening", "opening_joining", "open", "open_joining", "open_joined"}

\* where a transport callback comes from: the Socket the client holds, or a stale one
Sources == {"current"} \cup StaleKinds

VARIABLES
  variant,            \* which client class runs
  persist,            \* options.persist
  apiBaseUrl,         \* options.apiBaseUrl is configured
  requestTimeout,     \* options.requestTimeout
  socket,             \* this.socket: "null", or the state of the Socket object:
                      \*   "opening", "open", "closed"
  channel,            \* this.channel: "null", or the state of the Channel object:
                      \*   "joining", "joined", "failed", "errored"
  heartbeatInterval,  \* this.heartbeatInterval is not null
  intervals,          \* setInterval timers of the heartbeat that were not cleared
  connectionState,
  steps,
  response,
  error,
  isConnecting,
  isCompleted,
  store,              \* localStorage[prefix + 'active_request']
  now,                \* Date.now()
  stale,              \* how many stale Socket objects of each kind exist
  timers,             \* pending setTimeout(cleanupConnection, 1000) of the token variant
  listeners,          \* this.listeners: the registered <<event, callback>> pairs, in
                      \*   the insertion order of the per-event Sets
  handle,             \* the pair whose unsubscribe function the caller holds, from
                      \*   its last on() call
  uncaught,           \* an exception of a listener left the last operation
  inflight,           \* reconnectWithBackend calls awaiting fetch
  emitted,            \* events emitted by the last operation, with what a listener sees
  connectCalls,       \* connect() invocations made by the last operation
  opened,             \* Socket objects created by the last operation
  last,               \* the last operation and what it returned
  util                \* a call of a function of utils.ts: its arguments and its result

cfgVars == <<variant, persist, apiBaseUrl, requestTimeout>>
vars == <<variant, persist, apiBaseUrl, requestTimeout, socket, channel, heartbeatInterval,
          intervals, connectionState, steps, response, error, isConnecting, isCompleted,
          store, now, stale, timers, listeners, handle, uncaught, inflight, emitted,
          connectCalls, opened, last, util>>

\* every variable but util
clientState == <<variant, persist, apiBaseUrl, requestTimeout, socket, channel, heartbeatInterval,
          intervals, connectionState, steps, response, error, isConnecting, isCompleted,
          store, now, stale, timers, listeners, handle, uncaught, inflight, emitted,
          connectCalls, opened, last>>

\* the mutable state as one record, the `this` the handlers work on
Cur ==
  [ socket |-> socket, channel |-> channel, heartbeatInterval |-> heartbeatInterval,
    intervals |-> intervals,
    connectionState |-> connectionState, steps |-> steps, response |-> response,
    error |-> error, isConnecting |-> isConnecting, isCompleted |-> isCompleted,
    store |-> store, stale |-> stale, timers |-> timers, listeners |-> listeners,
    uncaught |-> FALSE, emitted |-> <<>>, connectCalls |-> 0, opened |-> 0, overflow |-> FALSE ]

\* ------------------------------------------------------------ utils.ts

createInitialSteps ==
  << [id |-> "queue", status |-> "pending", errorMessage |-> "none"],
     [id |-> "process", status |-> "pending", errorMessage |-> "none"],
     [id |-> "receive", status |-> "pending", errorMessage |-> "none"],
     [id |-> "complete", status |-> "pending", errorMessage |-> "none"] >>

\* { ...step, ...updates }
mergeStep(step, updates) ==
  [f \in DOMAIN step |-> IF f \in DOMAIN updates THEN updates[f] ELSE step[f]]

\* updateStep adding an entry when no entry has the id
updateStepOrAppend(ss, id, updates) ==
  IF \E i \in DOMAIN ss : ss[i].id = id
    THEN [i \in DOMAIN ss |-> IF ss[i].id = id THEN mergeStep(ss[i], updates) ELSE ss[i]]
    ELSE Append(ss, [id |-> id, status |-> "pending", errorMessage |-> "none"])

updateStep(ss, id, updates) ==
  [i \in DOMAIN ss |-> IF ss[i].id = id THEN mergeStep(ss[i], updates) ELSE ss[i]]

isStale(rec) == now - rec.timestamp > DEFAULT_REQUEST_TIMEOUT

clearActiveRequest(c) == [c EXCEPT !.store = NoRecord]

saveActiveRequest(c, channelId, wsToken) ==
  [c EXCEPT !.store = [channelId |-> channelId, wsToken |-> wsToken, timestamp |-> now]]

\* getActiveRequest: the value it returns, and the store after it (a stale record is removed)
getActiveRequestValue(c) ==
  IF c.store = NoRecord \/ isStale(c.store) THEN NoRecord ELSE c.store

getActiveRequestState(c) ==
  IF c.store # NoRecord /\ isStale(c.store) THEN clearActiveRequest(c) ELSE c

\* decodeToken + isTokenExpired on the token values of TokenSet
decodeToken(tok) ==
  IF tok \in {"jwtValid", "jwtExpired"}
    THEN [ok |-> TRUE, project_id |-> "p1", channel_id |-> "c1", msg |-> ""]
    ELSE [ok |-> FALSE, project_id |-> "", channel_id |-> "",
          msg |-> "Invalid token: JWT must have 3 parts"]

\* isTokenExpired ignoring the exp field
isTokenExpiredNever(tok) == FALSE

isTokenExpired(tok) == tok = "jwtExpired"

\* isTokenExpired on a payload and the value Date.now() returns; !payload.exp is true
\* for a payload without exp and for exp 0. isTokenExpired above is its value on
\* the tokens of TokenSet at the time of the call.
isTokenExpiredAt(payload, clock) ==
  IF ~payload.hasExp \/ payload.exp = 0 THEN FALSE
  ELSE clock >= payload.exp * 1000

\* ------------------------------------------------------ client internals

hasPendingRequestValue(c) == persist /\ getActiveRequestValue(c) # NoRecord

\* getState(): the fields of the snapshot that are computed rather than copied
getState(c) ==
  [ connectionState |-> c.connectionState,
    isConnected |-> (c.connectionState = "connected"),
    isConnecting |-> c.isConnecting,
    hasPendingRequest |-> hasPendingRequestValue(c),
    isCompleted |-> c.isCompleted ]

\* the callbacks of this.listeners.get(event), in the Set's insertion order
callbacksOf(ls, ev) ==
  LET own == SelectSeq(ls, LAMBDA p : p[1] = ev)
  IN [i \in DOMAIN own |-> own[i][2]]

\* whether calling the callback raises an exception
throws(cb) == cb = "thrower"

\* the position of the first callback of cbs that throws, 0 when none does
RECURSIVE firstThrow(_, _)
firstThrow(cbs, i) ==
  IF i > Len(cbs) THEN 0 ELSE IF throws(cbs[i]) THEN i ELSE firstThrow(cbs, i + 1)

\* emit with the try/catch around each callback taken out: the forEach stops at the
\* first callback that throws and the exception leaves emit
emitWithoutCatch(c, ev, arg) ==
  LET cbs == callbacksOf(c.listeners, ev)
      stop == firstThrow(cbs, 1)
  IN [c EXCEPT !.uncaught = @ \/ stop > 0,
               !.emitted = Append(@,
                 [ev |-> ev, arg |-> arg, isCompleted |-> c.isCompleted,
                  pending |-> hasPendingRequestValue(c),
                  called |-> IF stop = 0 THEN cbs ELSE SubSeq(cbs, 1, stop)])]

\* emit: the event, its argument, what a listener reading the client then sees, and
\* the callbacks called; each call is in its own try/catch, so a callback that throws
\* is logged and the forEach goes on
emit(c, ev, arg) ==
  [c EXCEPT !.emitted = Append(@,
     [ev |-> ev, arg |-> arg, isCompleted |-> c.isCompleted,
      pending |-> hasPendingRequestValue(c),
      called |-> callbacksOf(c.listeners, ev)])]

setError(c, e) == [c EXCEPT !.error = e]

hasStep(c, id) == \E i \in DOMAIN c.steps : c.steps[i].id = id

updateStepAndEmit(c, id, updates) ==
  LET c1 == [c EXCEPT !.steps = updateStep(c.steps, id, updates)]
  IN IF hasStep(c1, id) THEN emit(c1, "step", id) ELSE c1

\* clearInterval is called on the timer the field holds, when it holds one
stopHeartbeat(c) ==
  IF c.heartbeatInterval
    THEN [c EXCEPT !.heartbeatInterval = FALSE, !.intervals = @ - 1]
    ELSE c

startHeartbeat(c) ==
  [stopHeartbeat(c) EXCEPT !.heartbeatInterval = TRUE, !.intervals = @ + 1]

\* socket.onClose callback
onClose(c) ==
  LET c1 == [c EXCEPT !.connectionState = "disconnected", !.isConnecting = FALSE]
  IN emit(stopHeartbeat(c1), "disconnected", "Socket closed")

StaleCount(c) ==
  c.stale["opening"] + c.stale["opening_joining"] + c.stale["open"]
    + c.stale["open_joining"] + c.stale["open_joined"]

\* what the Socket object the client holds is once the client has dropped it
staleKind(sock, chan) ==
  IF sock = "opening"
    THEN (IF chan = "joining" THEN "opening_joining" ELSE "opening")
    ELSE (IF chan = "joining" THEN "open_joining"
          ELSE IF chan = "joined" THEN "open_joined" ELSE "open")

\* socket.disconnect() on the Socket the client holds, whose channel was in state chan.
\* The test double calls the close callbacks before it returns (sync); the Phoenix
\* library reports the close later, and until then the object can still call back.
socketDisconnect(c, chan, sync) ==
  IF sync THEN onClose(c)
  ELSE IF c.socket = "closed" THEN c
  ELSE IF StaleCount(c) >= MaxStale THEN [c EXCEPT !.overflow = TRUE]
  ELSE [c EXCEPT !.stale[staleKind(c.socket, chan)] = @ + 1]

cleanupConnection(c, sync) ==
  LET c1 == stopHeartbeat(c)
      c2 == IF c1.channel # "null" THEN [c1 EXCEPT !.channel = "null"] ELSE c1
      c3 == IF c2.socket # "null"
              THEN [socketDisconnect(c2, c1.channel, sync) EXCEPT !.socket = "null"]
              ELSE c2
  IN [c3 EXCEPT !.connectionState = "disconnected"]

\* new Socket(...); onOpen/onError/onClose registration; socket.connect()
newSocket(c) == [c EXCEPT !.socket = "opening", !.opened = @ + 1]

\* ------------------------------------------------ channel variant: connect

\* connect tearing the existing connection down before it validates its options
connectTearsDownFirst(c, o, sync) ==
  LET c0 == [c EXCEPT !.connectCalls = @ + 1] IN
  IF c0.isConnecting THEN c0
  ELSE
    LET c1 == cleanupConnection(c0, sync) IN
    IF o.channelId = ""
      THEN emit(setError(c1, "channelId is required"), "error", "channelId is required")
    ELSE IF o.wsToken = ""
      THEN emit(setError(c1, "wsToken is required for WebSocket authentication"),
                "error", "wsToken is required for WebSocket authentication")
    ELSE
      LET c2 == emit([c1 EXCEPT !.isConnecting = TRUE], "connecting", "")
          c3 == [c2 EXCEPT !.steps = createInitialSteps, !.error = Null,
                           !.response = NoResponse, !.isCompleted = FALSE]
          c4 == IF persist THEN saveActiveRequest(c3, o.channelId, o.wsToken) ELSE c3
          c5 == updateStepAndEmit(c4, "queue", [status |-> "pending"])
      IN newSocket(c5)

\* connect with the reentrancy guard taken out
connectWithoutGuard(c, o, sync) ==
  LET c0 == [c EXCEPT !.connectCalls = @ + 1] IN
  IF o.channelId = ""
    THEN emit(setError(c0, "channelId is required"), "error", "channelId is required")
  ELSE IF o.wsToken = ""
    THEN emit(setError(c0, "wsToken is required for WebSocket authentication"),
              "error", "wsToken is required for WebSocket authentication")
  ELSE
    LET c1 == emit([c0 EXCEPT !.isConnecting = TRUE], "connecting", "")
        c2 == cleanupConnection(c1, sync)
        c3 == [c2 EXCEPT !.steps = createInitialSteps, !.error = Null,
                         !.response = NoResponse, !.isCompleted = FALSE]
        c4 == IF persist THEN saveActiveRequest(c3, o.channelId, o.wsToken) ELSE c3
        c5 == updateStepAndEmit(c4, "queue", [status |-> "pending"])
    IN newSocket(c5)

connect(c, o, sync) ==
  LET c0 == [c EXCEPT !.connectCalls = @ + 1] IN
  IF c0.isConnecting THEN c0
  ELSE IF o.channelId = ""
    THEN emit(setError(c0, "channelId is required"), "error", "channelId is required")
  ELSE IF o.wsToken = ""
    THEN emit(setError(c0, "wsToken is required for WebSocket authentication"),
              "error", "wsToken is required for WebSocket authentication")
  ELSE
    LET c1 == emit([c0 EXCEPT !.isConnecting = TRUE], "connecting", "")
        c2 == cleanupConnection(c1, sync)
        c3 == [c2 EXCEPT !.steps = createInitialSteps, !.error = Null,
                         !.response = NoResponse, !.isCompleted = FALSE]
        c4 == IF persist THEN saveActiveRequest(c3, o.channelId, o.wsToken) ELSE c3
        c5 == updateStepAndEmit(c4, "queue", [status |-> "pending"])
    IN newSocket(c5)

\* socket.onOpen callback (the same in both variants)
joinChannel(c) ==
  IF c.socket = "null" THEN c ELSE [c EXCEPT !.channel = "joining"]

onOpen(c) ==
  LET c1 == [c EXCEPT !.connectionState = "connected", !.isConnecting = FALSE]
  IN joinChannel(emit(c1, "connected", ""))

\* socket.onError callback
onError(c) ==
  LET c1 == [c EXCEPT !.connectionState = "error", !.isConnecting = FALSE]
      c2 == setError(c1, "WebSocket connection error")
      c3 == updateStepAndEmit(c2, "queue",
              [status |-> "error", errorMessage |-> "WebSocket connection error"])
  IN emit(c3, "error", "WebSocket connection error")

\* channel.join().receive('ok', ...)
joinOk(c) ==
  LET c1 == updateStepAndEmit(c, "queue", [status |-> "success"])
      c2 == updateStepAndEmit(c1, "process", [status |-> "pending"])
      c3 == updateStepAndEmit(c2, "receive", [status |-> "pending"])
  IN startHeartbeat(emit(c3, "channel_joined", ""))

\* the classification taken out: every reason gets the generic fallback
joinErrorMessageGeneric(reason) == "Failed to join channel"

joinErrorMessage(reason) ==
  IF reason = "unauthorized_project_access"
    THEN "Unauthorized: You do not have access to this project"
  ELSE IF reason = "invalid_channel_format" THEN "Invalid channel format"
  ELSE IF reason \in {"invalid_project_uuid", "invalid_channel_uuid"}
    THEN "Invalid project or channel ID"
  ELSE IF reason # "unknown" THEN "Channel join failed: " \o reason
  ELSE "Failed to join channel"

\* channel.join().receive('error', ...)
joinError(c, reason) ==
  LET msg == joinErrorMessage(reason)
      c1 == setError(c, msg)
      c2 == updateStepAndEmit(c1, "queue", [status |-> "error", errorMessage |-> msg])
  IN emit(c2, "channel_error", reason)

\* handleError leaving the persisted record in place
handleErrorKeepsRecord(c, message) ==
  LET errorMsg == IF message = "" THEN "An error occurred" ELSE message
      c1 == setError(c, errorMsg)
      c2 == updateStepAndEmit(c1, "process", [status |-> "error", errorMessage |-> errorMsg])
  IN emit(c2, "error", errorMsg)

\* handleError also closing the connection, as the handling of a failed response does
handleErrorTearsDown(c, message) ==
  LET errorMsg == IF message = "" THEN "An error occurred" ELSE message
      c1 == setError(c, errorMsg)
      c2 == updateStepAndEmit(c1, "process", [status |-> "error", errorMessage |-> errorMsg])
      c3 == emit(c2, "error", errorMsg)
      c4 == IF persist THEN clearActiveRequest(c3) ELSE c3
  IN cleanupConnection(c4, FALSE)

handleError(c, message) ==
  LET errorMsg == IF message = "" THEN "An error occurred" ELSE message
      c1 == setError(c, errorMsg)
      c2 == updateStepAndEmit(c1, "process", [status |-> "error", errorMessage |-> errorMsg])
      c3 == emit(c2, "error", errorMsg)
  IN IF persist THEN clearActiveRequest(c3) ELSE c3

\* disconnect without the assignment this.isConnecting = false
disconnectKeepsConnecting(c, sync) ==
  LET c1 == cleanupConnection(c, sync)
      c2 == IF persist THEN clearActiveRequest(c1) ELSE c1
  IN emit(c2, "disconnected", "Manual disconnect")

\* disconnect also clearing the last error
disconnectClearsError(c, sync) ==
  LET c1 == cleanupConnection([c EXCEPT !.isConnecting = FALSE, !.error = Null], sync)
      c2 == IF persist THEN clearActiveRequest(c1) ELSE c1
  IN emit(c2, "disconnected", "Manual disconnect")

disconnect(c, sync) ==
  LET c1 == cleanupConnection([c EXCEPT !.isConnecting = FALSE], sync)
      c2 == IF persist THEN clearActiveRequest(c1) ELSE c1
  IN emit(c2, "disconnected", "Manual disconnect")

\* reset without the assignment this.response = null
resetKeepsResponse(c, sync) ==
  [disconnect(c, sync) EXCEPT !.steps = <<>>, !.error = Null]

\* reset also clearing the completed flag
resetClearsCompleted(c, sync) ==
  [disconnect(c, sync) EXCEPT !.steps = <<>>, !.response = NoResponse, !.error = Null,
                              !.isCompleted = FALSE]

reset(c, sync) ==
  [disconnect(c, sync) EXCEPT !.steps = <<>>, !.response = NoResponse, !.error = Null]

\* ------------------------------------------------------- on, off, destroy

\* The listeners Map, written as one sequence: the Set of each event in insertion
\* order, the events one after the other in the order of eventRank
eventRank(ev) == IF ev = "connected" THEN 1 ELSE 2

\* set.add(callback) on the Set of ev, for a callback that Set does not hold
addListener(ls, ev, cb) ==
  SelectSeq(ls, LAMBDA p : eventRank(p[1]) <= eventRank(ev))
    \o << <<ev, cb>> >>
    \o SelectSeq(ls, LAMBDA p : eventRank(p[1]) > eventRank(ev))

\* on with a list in place of the per-event Set
onAlwaysAppends(c, ev, cb) == [c EXCEPT !.listeners = addListener(@, ev, cb)]

\* this.listeners.get(event).add(callback): a Set holds a value once
on(c, ev, cb) ==
  IF \E i \in DOMAIN c.listeners : c.listeners[i] = <<ev, cb>> THEN c
  ELSE [c EXCEPT !.listeners = addListener(@, ev, cb)]

\* this.listeners.get(event)?.delete(callback); the function on() returns does the same
off(c, ev, cb) ==
  [c EXCEPT !.listeners = SelectSeq(@, LAMBDA p : p # <<ev, cb>>)]

\* destroy without this.listeners.clear()
destroyKeepsListeners(c, sync) == reset(c, sync)

destroy(c, sync) == [reset(c, sync) EXCEPT !.listeners = <<>>]

\* --------------------------------------------- channel variant: reconnect

reconnectValue(c) ==
  IF ~persist THEN FALSE
  ELSE IF c.isCompleted THEN FALSE
  ELSE IF c.response.status = "completed" THEN FALSE
  ELSE IF getActiveRequestValue(c) = NoRecord THEN FALSE
  ELSE IF getActiveRequestValue(c).wsToken = "" THEN FALSE
  ELSE TRUE

\* reconnect without its two completed checks
reconnectWithoutCompletedCheck(c, sync) ==
  IF ~persist THEN c
  ELSE
    LET c1 == getActiveRequestState(c)
        activeRequest == getActiveRequestValue(c)
    IN IF activeRequest = NoRecord THEN c1
       ELSE IF activeRequest.wsToken = "" THEN clearActiveRequest(c1)
       ELSE connect(c1, [channelId |-> activeRequest.channelId,
                         wsToken |-> activeRequest.wsToken], sync)

\* reconnect without its check of options.persist
reconnectIgnoresPersist(c, sync) ==
  IF c.isCompleted THEN clearActiveRequest(c)
  ELSE IF c.response.status = "completed"
    THEN clearActiveRequest([c EXCEPT !.isCompleted = TRUE])
  ELSE
    LET c1 == getActiveRequestState(c)
        activeRequest == getActiveRequestValue(c)
    IN IF activeRequest = NoRecord THEN c1
       ELSE IF activeRequest.wsToken = "" THEN clearActiveRequest(c1)
       ELSE connect(c1, [channelId |-> activeRequest.channelId,
                         wsToken |-> activeRequest.wsToken], sync)

reconnect(c, sync) ==
  IF ~persist THEN c
  ELSE IF c.isCompleted THEN clearActiveRequest(c)
  ELSE IF c.response.status = "completed"
    THEN clearActiveRequest([c EXCEPT !.isCompleted = TRUE])
  ELSE
    LET c1 == getActiveRequestState(c)
        activeRequest == getActiveRequestValue(c)
    IN IF activeRequest = NoRecord THEN c1
       ELSE IF activeRequest.wsToken = "" THEN clearActiveRequest(c1)
       ELSE connect(c1, [channelId |-> activeRequest.channelId,
                         wsToken |-> activeRequest.wsToken], sync)

BoolStr(b) == IF b THEN "true" ELSE "false"

\* a 'response' listener and what it does with the client while it runs
responseListener(c, react, sync) ==
  IF react = "reconnect"
    THEN emit(reconnect(c, sync), "listener:reconnect", BoolStr(reconnectValue(c)))
  ELSE IF react = "connect"
    THEN connect(c, [channelId |-> "c1", wsToken |-> "t1"], sync)
  ELSE c

emitResponse(c, payload, react, sync) ==
  responseListener(emit(c, "response", payload.status), react, sync)

\* ------------------------------------------ channel variant: handleResponse

\* the ai_generated branch marking the workflow completed and clearing the record
handleAiGeneratedAsTerminal(c, payload, react, sync) ==
  LET c1 == updateStepAndEmit(c, "process", [status |-> "success"])
      c2 == IF hasStep(c1, "backend") THEN c1
            ELSE [c1 EXCEPT !.steps = Append(@,
                    [id |-> "backend", status |-> "pending", errorMessage |-> "none"])]
      c3 == updateStepAndEmit(c2, "backend", [status |-> "pending"])
      c4 == [c3 EXCEPT !.response = payload, !.isCompleted = TRUE]
      c5 == IF persist THEN clearActiveRequest(c4) ELSE c4
  IN emitResponse(c5, payload, react, sync)

handleAiGenerated(c, payload, react, sync) ==
  LET c1 == updateStepAndEmit(c, "process", [status |-> "success"])
      c2 == IF hasStep(c1, "backend") THEN c1
            ELSE [c1 EXCEPT !.steps = Append(@,
                    [id |-> "backend", status |-> "pending", errorMessage |-> "none"])]
      c3 == updateStepAndEmit(c2, "backend", [status |-> "pending"])
      c4 == [c3 EXCEPT !.response = payload]
  IN emitResponse(c4, payload, react, sync)

handleCompleted(c, payload, react, sync) ==
  LET c1 == updateStepAndEmit(c, "process", [status |-> "success"])
      c2 == updateStepAndEmit(c1, "backend", [status |-> "success"])
      c3 == updateStepAndEmit(c2, "receive", [status |-> "success"])
      c4 == updateStepAndEmit(c3, "complete", [status |-> "success"])
      c5 == [c4 EXCEPT !.response = payload, !.isCompleted = TRUE]
      c6 == IF persist THEN clearActiveRequest(c5) ELSE c5
      c7 == emitResponse(c6, payload, react, sync)
  IN cleanupConnection(c7, sync)

isSuccess(payload) ==
  \/ payload.status = "success"
  \/ payload.status = "SUCCESS"
  \/ payload.meta = "success"
  \/ payload.status = "ok"

handleSuccess(c, payload) ==
  LET c1 == [c EXCEPT !.isCompleted = TRUE]
      c2 == IF hasStep(c1, "backend")
              THEN updateStepAndEmit(c1, "backend", [status |-> "success"])
              ELSE c1
      c3 == updateStepAndEmit(c2, "process", [status |-> "success"])
      c4 == updateStepAndEmit(c3, "receive", [status |-> "success"])
      c5 == updateStepAndEmit(c4, "complete", [status |-> "success"])
  IN [c5 EXCEPT !.response = payload]

handleFailure(c, payload) ==
  LET errorMsg == IF payload.err = "none" THEN "Unknown error" ELSE payload.err
      c1 == updateStepAndEmit(c, "process", [status |-> "error", errorMessage |-> errorMsg])
      c2 == updateStepAndEmit(c1, "receive", [status |-> "error"])
      c3 == updateStepAndEmit(c2, "complete", [status |-> "error"])
  IN setError(c3, errorMsg)

\* handleResponse clearing the record after it has emitted 'response', in the
\* completed branch and in the success/failure branch
handleResponseClearsLate(c, payload, react, sync) ==
  IF payload.status = "ai_generated" THEN handleAiGenerated(c, payload, react, sync)
  ELSE
    LET c1 == IF payload.status = "completed"
                THEN [updateStepAndEmit(updateStepAndEmit(updateStepAndEmit(
                        updateStepAndEmit(c, "process", [status |-> "success"]),
                        "backend", [status |-> "success"]),
                        "receive", [status |-> "success"]),
                        "complete", [status |-> "success"])
                      EXCEPT !.response = payload, !.isCompleted = TRUE]
              ELSE IF isSuccess(payload) THEN handleSuccess(c, payload)
              ELSE handleFailure(c, payload)
        c2 == emitResponse(c1, payload, react, sync)
        c3 == IF persist THEN clearActiveRequest(c2) ELSE c2
    IN cleanupConnection(c3, sync)

handleResponse(c, payload, react, sync) ==
  IF payload.status = "ai_generated" THEN handleAiGenerated(c, payload, react, sync)
  ELSE IF payload.status = "completed" THEN handleCompleted(c, payload, react, sync)
  ELSE
    LET c1 == IF isSuccess(payload) THEN handleSuccess(c, payload)
              ELSE handleFailure(c, payload)
        c2 == IF persist THEN clearActiveRequest(c1) ELSE c1
        c3 == emitResponse(c2, payload, react, sync)
    IN cleanupConnection(c3, sync)


\* ------------------------------------------ channel variant: backend assist

\* reconnectWithBackend up to its await: TRUE when the fetch is issued
backendRequestIssued(c) ==
  persist /\ apiBaseUrl /\ getActiveRequestValue(c) # NoRecord

reconnectWithBackendCall(c) ==
  IF ~persist \/ ~apiBaseUrl THEN c ELSE getActiveRequestState(c)

BackendOutcomes == {"rejected", "http_error", "missing_fields", "ok"}

\* reconnectWithBackend saving the record before it looks at the fields of the reply
reconnectWithBackendSavesFirst(c, outcome, sync) ==
  IF outcome \in {"rejected", "http_error"} THEN c
  ELSE IF outcome = "missing_fields" THEN saveActiveRequest(c, "c1", "")
  ELSE connect(saveActiveRequest(c, "c1", "t2"), [channelId |-> "c1", wsToken |-> "t2"], sync)

\* reconnectWithBackend after its await
reconnectWithBackendResume(c, outcome, sync) ==
  IF outcome # "ok" THEN c
  ELSE connect(saveActiveRequest(c, "c1", "t2"), [channelId |-> "c1", wsToken |-> "t2"], sync)

\* ------------------------------------------------------------ token variant

tokenConnect(c, wsToken, sync) ==
  LET c0 == [c EXCEPT !.connectCalls = @ + 1]
      tokenPayload == decodeToken(wsToken)
  IN
  IF c0.isConnecting THEN c0
  ELSE IF ~tokenPayload.ok
    THEN emit(setError(c0, tokenPayload.msg), "error", tokenPayload.msg)
  ELSE IF isTokenExpired(wsToken)
    THEN emit(setError(c0, "Token has expired"), "error", "Token has expired")
  ELSE
    LET c1 == emit([c0 EXCEPT !.isConnecting = TRUE], "connecting", "")
        c2 == cleanupConnection(c1, sync)
        c3 == [c2 EXCEPT !.steps = createInitialSteps, !.error = Null,
                         !.response = NoResponse]
        \* saveActiveRequest(prefix, project_id, channel_id, wsToken): the arguments
        \* land in the parameters (prefix, channelId, wsToken, websocketUrl)
        c4 == IF persist
                THEN saveActiveRequest(c3, tokenPayload.project_id, tokenPayload.channel_id)
                ELSE c3
        c5 == updateStepAndEmit(c4, "queue", [status |-> "loading"])
    IN newSocket(c5)

tokenJoinOk(c) ==
  LET c1 == updateStepAndEmit(c, "queue", [status |-> "success"])
      c2 == updateStepAndEmit(c1, "process", [status |-> "loading"])
      c3 == updateStepAndEmit(c2, "receive", [status |-> "loading"])
  IN startHeartbeat(emit(c3, "channel_joined", ""))

tokenReconnectValue(c) == persist /\ getActiveRequestValue(c) # NoRecord

tokenReconnect(c, sync) ==
  IF ~persist THEN c
  ELSE
    LET c1 == getActiveRequestState(c)
        activeRequest == getActiveRequestValue(c)
    IN IF activeRequest = NoRecord THEN c1
       ELSE tokenConnect(c1, activeRequest.wsToken, sync)

tokenResponseListener(c, react, sync) ==
  IF react = "reconnect"
    THEN emit(tokenReconnect(c, sync), "listener:reconnect", BoolStr(tokenReconnectValue(c)))
  ELSE IF react = "connect" THEN tokenConnect(c, "jwtValid", sync)
  ELSE c

tokenHandleResponse(c, payload, react, sync) ==
  LET c1 == IF isSuccess(payload)
              THEN [updateStepAndEmit(
                      updateStepAndEmit(
                        updateStepAndEmit(c, "process", [status |-> "success"]),
                        "receive", [status |-> "success"]),
                      "complete", [status |-> "success"])
                    EXCEPT !.response = payload]
              ELSE handleFailure(c, payload)
      c2 == IF persist THEN clearActiveRequest(c1) ELSE c1
      c3 == tokenResponseListener(emit(c2, "response", payload.status), react, sync)
  IN IF c3.timers < MaxTimers THEN [c3 EXCEPT !.timers = @ + 1]
     ELSE [c3 EXCEPT !.overflow = TRUE]

\* ------------------------------------------------- the transport objects

kindSock(k) == IF k \in {"opening", "opening_joining"} THEN "opening" ELSE "open"

kindChan(k) ==
  IF k \in {"opening_joining", "open_joining"} THEN "joining"
  ELSE IF k = "open_joined" THEN "joined" ELSE "null"

\* the state of the Socket object a callback comes from, and of the channel on it
srcSock(src) ==
  IF src = "current" THEN socket ELSE IF stale[src] > 0 THEN kindSock(src) ELSE "null"

srcChan(src) ==
  IF src = "current" THEN channel ELSE IF stale[src] > 0 THEN kindChan(src) ELSE "null"

\* the object behind src moves to socket state sock and channel state chan
moveSrc(c, src, sock, chan) ==
  IF src = "current" THEN [c EXCEPT !.socket = sock, !.channel = chan]
  ELSE LET less == [c.stale EXCEPT ![src] = @ - 1]
       IN [c EXCEPT !.stale = [less EXCEPT ![staleKind(sock, chan)] = @ + 1]]

\* the object behind src has closed
closeSrc(c, src) ==
  IF src = "current"
    THEN [c EXCEPT !.socket = "closed",
                   !.channel = IF c.channel = "null" THEN "null" ELSE "errored"]
    ELSE [c EXCEPT !.stale[src] = @ - 1]

\* ------------------------------------------------------------------ actions

\* what getState() returned just before the operation
Pre ==
  [ isConnecting |-> getState(Cur).isConnecting,
    isCompleted |-> getState(Cur).isCompleted,
    hasPendingRequest |-> getState(Cur).hasPendingRequest,
    registered |-> Len(listeners) ]

Apply(r, op, ret) ==
  /\ ~r.overflow
  /\ socket' = r.socket
  /\ channel' = r.channel
  /\ heartbeatInterval' = r.heartbeatInterval
  /\ intervals' = r.intervals
  /\ connectionState' = r.connectionState
  /\ steps' = r.steps
  /\ response' = r.response
  /\ error' = r.error
  /\ isConnecting' = r.isConnecting
  /\ isCompleted' = r.isCompleted
  /\ store' = r.store
  /\ stale' = r.stale
  /\ timers' = r.timers
  /\ listeners' = r.listeners
  /\ uncaught' = r.uncaught
  /\ emitted' = r.emitted
  /\ connectCalls' = r.connectCalls
  /\ opened' = r.opened
  /\ last' = [op |-> op, ret |-> ret, pre |-> Pre]
  /\ UNCHANGED cfgVars
  /\ UNCHANGED util

\* an operation that returns no unsubscribe function
Set(r, op, ret) ==
  /\ Apply(r, op, ret)
  /\ handle' = handle

\* the client right after its constructor
Constructed ==
  /\ socket = "null"
  /\ channel = "null"
  /\ heartbeatInterval = FALSE
  /\ intervals = 0
  /\ connectionState = "disconnected"
  /\ steps = <<>>
  /\ response = NoResponse
  /\ error = Null
  /\ isConnecting = FALSE
  /\ isCompleted = FALSE
  /\ store \in {NoRecord, [channelId |-> "c1", wsToken |-> "t1", timestamp |-> 0]}
  /\ now = 0
  /\ stale = [k \in StaleKinds |-> 0]
  /\ timers = 0
  /\ listeners = <<>>
  /\ handle = NoHandle
  /\ uncaught = FALSE
  /\ inflight = 0
  /\ emitted = <<>>
  /\ connectCalls = 0
  /\ opened = 0
  /\ last = [op |-> "new", ret |-> "void", pre |-> Pre]

Init ==
  /\ variant = "channel"
  /\ persist \in BOOLEAN
  /\ apiBaseUrl = FALSE
  /\ requestTimeout = DEFAULT_REQUEST_TIMEOUT
  /\ Constructed
  /\ util = NoCall

Connect(o, sync) ==
  /\ variant = "channel"
  /\ sync => socket # "null"
  /\ Set(connect(Cur, o, sync), "connect", "void")
  /\ UNCHANGED <<now, inflight>>

TokenConnect(tok, sync) ==
  /\ variant = "token"
  /\ sync => socket # "null"
  /\ Set(tokenConnect(Cur, tok, sync), "connect", "void")
  /\ UNCHANGED <<now, inflight>>

Disconnect(sync) ==
  /\ sync => socket # "null"
  /\ Set(disconnect(Cur, sync), "disconnect", "void")
  /\ UNCHANGED <<now, inflight>>

Reset(sync) ==
  /\ sync => socket # "null"
  /\ Set(reset(Cur, sync), "reset", "void")
  /\ UNCHANGED <<now, inflight>>

Reconnect(sync) ==
  /\ variant = "channel"
  /\ sync => socket # "null"
  /\ Set(reconnect(Cur, sync), "reconnect", BoolStr(reconnectValue(Cur)))
  /\ UNCHANGED <<now, inflight>>

TokenReconnect(sync) ==
  /\ variant = "token"
  /\ sync => socket # "null"
  /\ Set(tokenReconnect(Cur, sync), "reconnect", BoolStr(tokenReconnectValue(Cur)))
  /\ UNCHANGED <<now, inflight>>

HasPendingRequest ==
  /\ Set(IF persist THEN getActiveRequestState(Cur) ELSE Cur, "hasPendingRequest",
         BoolStr(hasPendingRequestValue(Cur)))
  /\ UNCHANGED <<now, inflight>>

ReconnectWithBackend ==
  /\ variant = "channel"
  /\ inflight < MaxInflight
  /\ Set(reconnectWithBackendCall(Cur), "reconnectWithBackend",
         IF backendRequestIssued(Cur) THEN "pending" ELSE "false")
  /\ inflight' = IF backendRequestIssued(Cur) THEN inflight + 1 ELSE inflight
  /\ UNCHANGED now

BackendResolve(outcome, sync) ==
  /\ inflight > 0
  /\ sync => socket # "null"
  /\ Set(reconnectWithBackendResume(Cur, outcome, sync), "reconnectWithBackend:resume",
         BoolStr(outcome = "ok"))
  /\ inflight' = inflight - 1
  /\ UNCHANGED now

Destroy(sync) ==
  /\ sync => socket # "null"
  /\ Set(destroy(Cur, sync), "destroy", "void")
  /\ UNCHANGED <<now, inflight>>

\* on(event, callback); the caller keeps the function it returns
On(ev, cb) ==
  /\ Apply(on(Cur, ev, cb), "on", "function")
  /\ handle' = <<ev, cb>>
  /\ UNCHANGED <<now, inflight>>

Off(ev, cb) ==
  /\ Set(off(Cur, ev, cb), "off", "void")
  /\ UNCHANGED <<now, inflight>>

\* the caller calls the function its last on() returned
Unsubscribe ==
  /\ handle # NoHandle
  /\ Set(off(Cur, handle[1], handle[2]), "unsubscribe", "void")
  /\ UNCHANGED <<now, inflight>>

\* ---- the transport (Phoenix Socket and Channel objects) calling back.
\* The callbacks do not look at which Socket object they were registered on.

SocketOpen(src) ==
  /\ srcSock(src) = "opening"
  /\ Set(onOpen(moveSrc(Cur, src, "open", srcChan(src))), "socket.onOpen", "void")
  /\ UNCHANGED <<now, inflight>>

SocketError(src) ==
  /\ srcSock(src) \in {"opening", "open"}
  /\ Set(onError(Cur), "socket.onError", "void")
  /\ UNCHANGED <<now, inflight>>

\* a close the client did not ask for, or the late close of a socket it disconnected
SocketClose(src) ==
  /\ srcSock(src) \in {"opening", "open"}
  /\ Set(onClose(closeSrc(Cur, src)), "socket.onClose", "void")
  /\ UNCHANGED <<now, inflight>>

\* the Phoenix socket's own reconnect timer, which runs no client code
SocketRetry ==
  /\ socket = "closed"
  /\ socket' = "opening"
  /\ last' = [op |-> "socket.retry", ret |-> "void", pre |-> Pre]
  /\ emitted' = <<>>
  /\ connectCalls' = 0
  /\ opened' = 0
  /\ uncaught' = FALSE
  /\ UNCHANGED <<variant, persist, apiBaseUrl, requestTimeout, channel, heartbeatInterval,
                 intervals, connectionState, steps, response, error, isConnecting, isCompleted,
                 store, now, stale, timers, listeners, handle, inflight, util>>

JoinOk(src) ==
  /\ srcSock(src) = "open"
  /\ srcChan(src) = "joining"
  /\ Set((IF variant = "channel" THEN joinOk(moveSrc(Cur, src, "open", "joined"))
          ELSE tokenJoinOk(moveSrc(Cur, src, "open", "joined"))),
         "join.ok", "void")
  /\ UNCHANGED <<now, inflight>>

JoinError(src, reason) ==
  /\ srcSock(src) = "open"
  /\ srcChan(src) = "joining"
  /\ Set(joinError(moveSrc(Cur, src, "open", "failed"), reason), "join.error", "void")
  /\ UNCHANGED <<now, inflight>>

ChannelResponse(src, payload, react, sync) ==
  /\ variant = "channel"
  /\ srcSock(src) = "open"
  /\ srcChan(src) = "joined"
  /\ sync => (socket # "null" \/ react # "none")
  /\ Set(handleResponse(Cur, payload, react, sync), "channel.response", "void")
  /\ UNCHANGED <<now, inflight>>

TokenChannelResponse(src, payload, react, sync) ==
  /\ variant = "token"
  /\ srcSock(src) = "open"
  /\ srcChan(src) = "joined"
  /\ sync => (socket # "null" \/ react # "none")
  /\ Set(tokenHandleResponse(Cur, payload, react, sync), "channel.response", "void")
  /\ UNCHANGED <<now, inflight>>

ChannelError(src, message) ==
  /\ srcSock(src) = "open"
  /\ srcChan(src) = "joined"
  /\ Set(handleError(Cur, message), "channel.error", "void")
  /\ UNCHANGED <<now, inflight>>

\* setTimeout(() => this.cleanupConnection(), 1000) of the token variant firing
CleanupTimer(sync) ==
  /\ timers > 0
  /\ sync => socket # "null"
  /\ Set(cleanupConnection([Cur EXCEPT !.timers = @ - 1], sync), "timer.cleanup", "void")
  /\ UNCHANGED <<now, inflight>>

\* ---- the rest of the page

\* another writer of the same localStorage key (a second tab, the embedding page)
ExternalSave(wsToken) ==
  /\ Set(saveActiveRequest(Cur, "c1", wsToken), "external.save", "void")
  /\ UNCHANGED <<now, inflight>>

Tick ==
  /\ now < MaxTicks * TickMs
  /\ now' = now + TickMs
  /\ last' = [op |-> "tick", ret |-> "void", pre |-> Pre]
  /\ emitted' = <<>>
  /\ connectCalls' = 0
  /\ opened' = 0
  /\ uncaught' = FALSE
  /\ UNCHANGED <<variant, persist, apiBaseUrl, requestTimeout, socket, channel, heartbeatInterval,
                 intervals, connectionState, steps, response, error, isConnecting, isCompleted,
                 store, stale, timers, listeners, handle, inflight, util>>

\* ---- the channel variant, driven by its caller and by its transport
Next ==
  \/ \E sync \in BOOLEAN : Connect(ValidOptions, sync)
  \/ \E sync \in BOOLEAN : Disconnect(sync)
  \/ \E sync \in BOOLEAN : Reset(sync)
  \/ \E sync \in BOOLEAN : Reconnect(sync)
  \/ \E src \in Sources : SocketOpen(src)
  \/ \E src \in Sources : SocketError(src)
  \/ \E src \in Sources : SocketClose(src)
  \/ \E src \in Sources : JoinOk(src)
  \/ \E src \in Sources, payload \in CorePayloads, sync \in BOOLEAN :
       ChannelResponse(src, payload, "none", sync)
  \/ \E src \in Sources : ChannelError(src, "")
  \/ ExternalSave("t1")

Spec == Init /\ [][Next]_vars

\* ---- the channel variant with persistence, its caller also passing incomplete options
InitValidation ==
  /\ variant = "channel"
  /\ persist = TRUE
  /\ apiBaseUrl = FALSE
  /\ requestTimeout = DEFAULT_REQUEST_TIMEOUT
  /\ Constructed
  /\ util = NoCall

NextValidation ==
  \/ \E o \in ConnectOptionsSet, sync \in BOOLEAN : Connect(o, sync)
  \/ \E sync \in BOOLEAN : Disconnect(sync)
  \/ \E sync \in BOOLEAN : Reset(sync)
  \/ \E sync \in BOOLEAN : Reconnect(sync)
  \/ \E src \in Sources : SocketOpen(src)
  \/ \E src \in Sources : SocketError(src)
  \/ \E src \in Sources : SocketClose(src)
  \/ \E src \in Sources : JoinOk(src)
  \/ \E src \in Sources, payload \in CorePayloads, sync \in BOOLEAN :
       ChannelResponse(src, payload, "none", sync)
  \/ \E src \in Sources : ChannelError(src, "")

SpecValidation == InitValidation /\ [][NextValidation]_vars

\* ---- the token variant
InitToken ==
  /\ variant = "token"
  /\ persist \in BOOLEAN
  /\ apiBaseUrl = FALSE
  /\ requestTimeout = DEFAULT_REQUEST_TIMEOUT
  /\ Constructed
  /\ util = NoCall

NextToken ==
  \/ \E tok \in TokenSet, sync \in BOOLEAN : TokenConnect(tok, sync)
  \/ \E sync \in BOOLEAN : Disconnect(sync)
  \/ \E sync \in BOOLEAN : TokenReconnect(sync)
  \/ \E src \in Sources : SocketOpen(src)
  \/ \E src \in Sources : SocketClose(src)
  \/ \E src \in Sources : JoinOk(src)
  \/ \E src \in Sources, payload \in CorePayloads, sync \in BOOLEAN :
       TokenChannelResponse(src, payload, "none", sync)
  \/ \E sync \in BOOLEAN : CleanupTimer(sync)

SpecToken == InitToken /\ [][NextToken]_vars

\* ---- the channel variant and the replies to its channel join
InitJoin ==
  /\ variant = "channel"
  /\ persist = TRUE
  /\ apiBaseUrl = FALSE
  /\ requestTimeout = DEFAULT_REQUEST_TIMEOUT
  /\ Constructed
  /\ util = NoCall

NextJoin ==
  \/ \E sync \in BOOLEAN : Connect(ValidOptions, sync)
  \/ \E sync \in BOOLEAN : Disconnect(sync)
  \/ \E sync \in BOOLEAN : Reset(sync)
  \/ \E src \in Sources : SocketOpen(src)
  \/ \E src \in Sources : SocketClose(src)
  \/ \E src \in Sources : JoinOk(src)
  \/ \E src \in Sources, reason \in JoinReasons : JoinError(src, reason)

SpecJoin == InitJoin /\ [][NextJoin]_vars

\* ---- the channel variant and the caller's listeners
InitListeners ==
  /\ variant = "channel"
  /\ persist = TRUE
  /\ apiBaseUrl = FALSE
  /\ requestTimeout = DEFAULT_REQUEST_TIMEOUT
  /\ Constructed
  /\ util = NoCall

NextListeners ==
  \/ \E sync \in BOOLEAN : Connect(ValidOptions, sync)
  \/ \E sync \in BOOLEAN : Disconnect(sync)
  \/ \E sync \in BOOLEAN : Destroy(sync)
  \/ \E src \in Sources : SocketOpen(src)
  \/ \E src \in Sources : SocketClose(src)
  \/ \E p \in ListenerPairs : On(p[1], p[2])
  \/ \E p \in ListenerPairs : Off(p[1], p[2])
  \/ Unsubscribe

SpecListeners == InitListeners /\ [][NextListeners]_vars

\* ---- the channel variant with and without persistence and an HTTP base, its caller
\* also using hasPendingRequest() and reconnectWithBackend()
InitAssist ==
  /\ variant = "channel"
  /\ persist \in BOOLEAN
  /\ apiBaseUrl \in BOOLEAN
  /\ requestTimeout = DEFAULT_REQUEST_TIMEOUT
  /\ Constructed
  /\ util = NoCall

NextAssist ==
  \/ \E sync \in BOOLEAN : Connect(ValidOptions, sync)
  \/ \E sync \in BOOLEAN : Disconnect(sync)
  \/ \E sync \in BOOLEAN : Reset(sync)
  \/ \E sync \in BOOLEAN : Reconnect(sync)
  \/ HasPendingRequest
  \/ ReconnectWithBackend
  \/ \E outcome \in BackendOutcomes, sync \in BOOLEAN : BackendResolve(outcome, sync)
  \/ \E src \in Sources : SocketOpen(src)
  \/ \E src \in Sources : JoinOk(src)
  \/ \E src \in Sources, payload \in CorePayloads, sync \in BOOLEAN :
       ChannelResponse(src, payload, "none", sync)
  \/ \E src \in Sources : ChannelError(src, "")
  \/ ExternalSave("t1")

SpecAssist == InitAssist /\ [][NextAssist]_vars

\* ---- the channel variant with persistence while the clock advances past the
\* staleness window, constructed with the default or a longer requestTimeout
RequestTimeouts == {DEFAULT_REQUEST_TIMEOUT, 2 * DEFAULT_REQUEST_TIMEOUT}

InitStale ==
  /\ variant = "channel"
  /\ persist = TRUE
  /\ apiBaseUrl \in BOOLEAN
  /\ requestTimeout \in RequestTimeouts
  /\ Constructed
  /\ util = NoCall

NextStale ==
  \/ \E sync \in BOOLEAN : Connect(ValidOptions, sync)
  \/ \E sync \in BOOLEAN : Disconnect(sync)
  \/ \E sync \in BOOLEAN : Reconnect(sync)
  \/ HasPendingRequest
  \/ ReconnectWithBackend
  \/ \E outcome \in BackendOutcomes, sync \in BOOLEAN : BackendResolve(outcome, sync)
  \/ \E src \in Sources : SocketOpen(src)
  \/ \E src \in Sources : JoinOk(src)
  \/ ExternalSave("t1")
  \/ Tick

SpecStale == InitStale /\ [][NextStale]_vars

\* ---- the functions of utils.ts called on their own
StepIds == {"queue", "process"}

StepEntries == [id : StepIds, status : {"pending", "success"}, errorMessage : {"none"}]

StepLists == UNION {[1..n -> StepEntries] : n \in 0..MaxSteps}

\* Partial<WorkflowStep> values
StepUpdates ==
  { [f \in {} |-> "none"],
    [status |-> "error"],
    [errorMessage |-> "boom"],
    [status |-> "error", errorMessage |-> "boom"] }

\* TokenPayload: exp is optional and counts seconds
TokenPayloads ==
  {[hasExp |-> FALSE, exp |-> 0]} \cup {[hasExp |-> TRUE, exp |-> x] : x \in 0..MaxExp}

\* values of Date.now() around the expiry instants
ClockValues == {t \in 0..(MaxExp * 1000 + 1) : t % 1000 \in {0, 1, 999}}

UtilCalls ==
  {[fn |-> "updateStep", steps |-> ss, id |-> id, updates |-> u, payload |-> "none",
    clock |-> 0, called |-> FALSE, result |-> "none"] :
     ss \in StepLists, id \in StepIds \cup {"missing"}, u \in StepUpdates}
  \cup
  {[fn |-> "isTokenExpired", steps |-> <<>>, id |-> "none", updates |-> "none",
    payload |-> pl, clock |-> t, called |-> FALSE, result |-> "none"] :
     pl \in TokenPayloads, t \in ClockValues}

InitUtils ==
  /\ variant = "channel"
  /\ persist = TRUE
  /\ apiBaseUrl = FALSE
  /\ requestTimeout = DEFAULT_REQUEST_TIMEOUT
  /\ Constructed
  /\ util \in UtilCalls

UpdateStepCall ==
  /\ util.fn = "updateStep"
  /\ ~util.called
  /\ util' = [util EXCEPT !.called = TRUE,
                          !.result = updateStep(util.steps, util.id, util.updates)]
  /\ UNCHANGED clientState

IsTokenExpiredCall ==
  /\ util.fn = "isTokenExpired"
  /\ ~util.called
  /\ util' = [util EXCEPT !.called = TRUE,
                          !.result = isTokenExpiredAt(util.payload, util.clock)]
  /\ UNCHANGED clientState

NextUtils ==
  \/ UpdateStepCall
  \/ IsTokenExpiredCall

SpecUtils == InitUtils /\ [][NextUtils]_vars

\* ---- the channel variant with persistence and a 'response' listener that calls
\* reconnect()
InitReact ==
  /\ variant = "channel"
  /\ persist = TRUE
  /\ apiBaseUrl = FALSE
  /\ requestTimeout = DEFAULT_REQUEST_TIMEOUT
  /\ Constructed
  /\ util = NoCall

NextReact ==
  \/ \E sync \in BOOLEAN : Connect(ValidOptions, sync)
  \/ \E sync \in BOOLEAN : Disconnect(sync)
  \/ \E src \in Sources : SocketOpen(src)
  \/ \E src \in Sources : JoinOk(src)
  \/ \E src \in Sources, payload \in CorePayloads, react \in {"none", "reconnect"},
        sync \in BOOLEAN :
       ChannelResponse(src, payload, react, sync)
  \/ ExternalSave("t1")

SpecReact == InitReact /\ [][NextReact]_vars

\* ---- the channel variant with persistence and a 'response' listener that calls
\* connect() with a new request
InitRestart ==
  /\ variant = "channel"
  /\ persist = TRUE
  /\ apiBaseUrl = FALSE
  /\ requestTimeout = DEFAULT_REQUEST_TIMEOUT
  /\ Constructed
  /\ util = NoCall

NextRestart ==
  \/ \E sync \in BOOLEAN : Connect(ValidOptions, sync)
  \/ \E sync \in BOOLEAN : Disconnect(sync)
  \/ \E src \in Sources : SocketOpen(src)
  \/ \E src \in Sources : SocketClose(src)
  \/ \E src \in Sources : JoinOk(src)
  \/ \E src \in Sources, payload \in CorePayloads, react \in {"none", "connect"},
        sync \in BOOLEAN :
       ChannelResponse(src, payload, react, sync)

SpecRestart == InitRestart /\ [][NextRestart]_vars

\* ------------------------------------------------------------ properties

HasEvent(es, ev) == \E i \in DOMAIN es : es[i].ev = ev

\* a 'response' event carrying a payload of status st was emitted
ResponseOf(es, st) == \E i \in DOMAIN es : es[i].ev = "response" /\ es[i].arg = st

\* a 'response' event for a payload other than ai_generated was emitted
TerminalResponse(es) ==
  \E i \in DOMAIN es : es[i].ev = "response" /\ es[i].arg # "ai_generated"

\* every step of ss whose id is in ids has the given status
StepsAre(ss, ids, status) == \A i \in DOMAIN ss : ss[i].id \in ids => ss[i].status = status

StepIs(ss, id, status) == \E i \in DOMAIN ss : ss[i].id = id /\ ss[i].status = status

\* C1: with persistence, handling a 'completed' payload leaves completed true and no
\* record; from then on, while completed is true, every reconnect() returns false,
\* leaves no record (even one written again after completion), calls connect not once
\* and opens no transport.
C1_CompletedBlocksReconnect ==
  [][ /\ (persist /\ last'.op = "channel.response" /\ ResponseOf(emitted', "completed"))
           => (isCompleted' /\ store' = NoRecord)
      /\ (persist /\ last'.op = "reconnect" /\ isCompleted)
           => /\ last'.ret = "false"
              /\ store' = NoRecord
              /\ connectCalls' = 0
              /\ opened' = 0
              /\ socket' = socket
              /\ isCompleted' ]_vars

\* a reconnect() refused after completion although a record had been written again
C1_Witness ==
  /\ persist
  /\ last.op = "reconnect"
  /\ last.ret = "false"
  /\ last.pre.isCompleted
  /\ last.pre.hasPendingRequest
  /\ response.status = "completed"
  /\ store = NoRecord
  /\ opened = 0

\* C2: handling an 'ai_generated' payload leaves completed, the persisted record, the
\* socket, the channel and the heartbeat as they were; handling a 'completed' payload
\* sets completed, clears the record, marks process/backend/receive/complete success
\* and tears the transport down.
C2_AiGeneratedKeepsSessionOpen ==
  [][ /\ (last'.op = "channel.response" /\ ResponseOf(emitted', "ai_generated"))
           => /\ isCompleted' = isCompleted
              /\ store' = store
              /\ socket' = socket
              /\ channel' = channel
              /\ heartbeatInterval' = heartbeatInterval
              /\ stale' = stale
              /\ response'.status = "ai_generated"
      /\ (last'.op = "channel.response" /\ ResponseOf(emitted', "completed"))
           => /\ isCompleted'
              /\ persist => store' = NoRecord
              /\ StepsAre(steps', {"process", "backend", "receive", "complete"}, "success")
              /\ socket' = "null"
              /\ channel' = "null"
              /\ ~heartbeatInterval'
              /\ connectionState' = "disconnected" ]_vars

\* 'completed' handled on a session that had seen 'ai_generated' (the backend step exists)
C2_Witness ==
  /\ persist
  /\ last.op = "channel.response"
  /\ ResponseOf(emitted, "completed")
  /\ ~last.pre.isCompleted
  /\ last.pre.hasPendingRequest
  /\ isCompleted
  /\ store = NoRecord
  /\ StepIs(steps, "backend", "success")
  /\ StepIs(steps, "complete", "success")
  /\ socket = "null"

\* C3: when the handling of a payload other than ai_generated returns, no socket, no
\* channel and no heartbeat timer are left and the phase is disconnected.
C3_TornDownInTheSameTurn ==
  (last.op = "channel.response" /\ TerminalResponse(emitted))
    => /\ socket = "null"
       /\ channel = "null"
       /\ ~heartbeatInterval
       /\ connectionState = "disconnected"

\* C4: once a terminal payload has been handled, a further payload emits no 'response'
\* event and changes neither the response, the steps, the error nor the completed flag.
C4_AtMostOneTerminalOutcome ==
  [][ (last.op = "channel.response" /\ TerminalResponse(emitted)
         /\ last'.op = "channel.response")
        => (~HasEvent(emitted', "response")
              /\ UNCHANGED <<response, steps, error, isCompleted>>) ]_vars

\* C5: a connect() made while the connecting flag is set creates no transport, emits
\* no event, writes no record and changes no state; so of two connect calls in a row
\* the second opens nothing when the first left the flag set.
C5_ConnectWhileConnectingIsDropped ==
  [][ (last'.op = "connect" /\ isConnecting)
        => /\ opened' = 0
           /\ emitted' = <<>>
           /\ (last.op = "connect" => opened + opened' <= 1)
           /\ UNCHANGED <<socket, channel, heartbeatInterval, connectionState, steps,
                          response, error, isConnecting, isCompleted, store, stale,
                          timers>> ]_vars

\* the second of two connect calls in a row, dropped while the first one's socket opens
C5_Witness ==
  /\ last.op = "connect"
  /\ last.pre.isConnecting
  /\ connectCalls = 1
  /\ opened = 0
  /\ emitted = <<>>
  /\ isConnecting
  /\ socket = "opening"

\* C6: of reconnect() calls made in a row, at most one opens a transport.
C6_RepeatedReconnectOpensOne ==
  [][ (persist /\ last.op = "reconnect" /\ opened = 1 /\ last'.op = "reconnect")
        => opened' = 0 ]_vars

\* the process step is in error: a failure payload or a channel error message was handled
ProcessFailed == StepIs(steps, "process", "error")

\* C7 as stated: with persistence, after a terminal success, a completion, a failure
\* payload or a channel error message, every reconnect() returns false and opens nothing.
C7_TerminalBlocksReconnect ==
  [][ (persist /\ (isCompleted \/ ProcessFailed) /\ last'.op = "reconnect")
        => (last'.ret = "false" /\ opened' = 0) ]_vars

\* C7 amended: the handling of a terminal payload or of a channel error message clears
\* the record, and only a success or a completion sets completed; reconnect() returns
\* false and opens nothing while completed is true, and after a failure payload or a
\* channel error message as long as the store holds no record.
C7_TerminalBlocksReconnectWhileNoRecord ==
  [][ /\ (persist /\ last'.op = "channel.response" /\ TerminalResponse(emitted'))
           => (store' = NoRecord /\ (ResponseOf(emitted', "error") => isCompleted' = isCompleted))
      /\ (persist /\ last'.op = "channel.error")
           => (store' = NoRecord /\ isCompleted' = isCompleted)
      /\ (persist /\ last'.op = "reconnect"
            /\ (isCompleted \/ (ProcessFailed /\ store = NoRecord)))
           => (last'.ret = "false" /\ opened' = 0 /\ connectCalls' = 0) ]_vars

\* a reconnect() refused after a failure payload or a channel error message
C7_Witness ==
  /\ persist
  /\ last.op = "reconnect"
  /\ last.ret = "false"
  /\ ~isCompleted
  /\ ProcessFailed
  /\ store = NoRecord
  /\ opened = 0

\* C8: a listener called while a payload is handled on a session that was not completed
\* never sees completed true together with a pending request.
C8_ListenersNeverSeeCompletedWithPending ==
  (last.op = "channel.response" /\ ~last.pre.isCompleted)
    => \A i \in DOMAIN emitted :
         (emitted[i].ev \in {"step", "response"} /\ emitted[i].isCompleted)
           => ~emitted[i].pending

\* C9: the snapshot's isConnecting is (phase = connecting) and its isConnected is
\* (phase = connected).
C9_FlagsMirrorPhase ==
  /\ getState(Cur).isConnecting = (getState(Cur).connectionState = "connecting")
  /\ getState(Cur).isConnected = (getState(Cur).connectionState = "connected")

\* C10: completed goes from true to false only in a connect() call that passes the
\* reentrancy guard and validation; every other operation and event keeps it true.
C10_CompletedUntilAcceptedConnect ==
  [][ (isCompleted /\ ~isCompleted')
        => (last'.op = "connect" /\ HasEvent(emitted', "connecting") /\ opened' = 1) ]_vars

\* a connect() rejected by validation while completed, which leaves completed true
C10_Witness ==
  /\ last.op = "connect"
  /\ last.pre.isCompleted
  /\ error = "channelId is required"
  /\ opened = 0
  /\ isCompleted

\* the message connect reports for options that fail its validation
ValidationMessage(o) ==
  IF o.channelId = "" THEN "channelId is required"
  ELSE "wsToken is required for WebSocket authentication"

C13_StepsAfterAcceptedConnect ==
  (last.op = "connect" /\ opened = 1)
    => /\ Len(steps) = 4
       /\ steps[1].id = "queue" /\ steps[1].status # "pending"
       /\ steps[2].id = "process" /\ steps[2].status = "pending"
       /\ steps[3].id = "receive" /\ steps[3].status = "pending"
       /\ steps[4].id = "complete" /\ steps[4].status = "pending"
       /\ HasEvent(emitted, "step")

UnauthorizedMessage == "Unauthorized: You do not have access to this project"

\* C14 (as stated): when the channel join fails with reason
\* 'unauthorized_project_access', an 'error' event is emitted whose message is the
\* fixed 'Unauthorized: ...' string.
C14_JoinFailureEmitsError ==
  [][\A src \in Sources :
       JoinError(src, "unauthorized_project_access")
         => \E i \in DOMAIN emitted' :
              emitted'[i].ev = "error" /\ emitted'[i].arg = UnauthorizedMessage]_vars

\* C14 (amended): when the channel join fails with reason
\* 'unauthorized_project_access', the last error becomes the fixed 'Unauthorized: ...'
\* string (not the generic fallback), the queue step, when there is one, is marked
\* error with that message and a 'step' event is emitted for it, a 'channel_error'
\* event carries the raw reason, no 'error' event is emitted, and the transport is
\* left as it was: same socket, same phase, same heartbeat, same record, nothing opened.
C14_JoinFailureReported ==
  [][\A src \in Sources :
       JoinError(src, "unauthorized_project_access")
         => /\ error' = UnauthorizedMessage
            /\ \A i \in DOMAIN steps' :
                 steps'[i].id = "queue"
                   => /\ steps'[i].status = "error"
                      /\ steps'[i].errorMessage = UnauthorizedMessage
            /\ Len(steps') = Len(steps)
            /\ StepIs(steps', "queue", "error") => HasEvent(emitted', "step")
            /\ \E i \in DOMAIN emitted' :
                 /\ emitted'[i].ev = "channel_error"
                 /\ emitted'[i].arg = "unauthorized_project_access"
            /\ ~HasEvent(emitted', "error")
            /\ opened' = 0
            /\ UNCHANGED <<socket, connectionState, heartbeatInterval, isConnecting,
                           isCompleted, response, store>>]_vars

\* the join of the current socket's channel was refused as unauthorized
C14_Witness ==
  /\ last.op = "join.error"
  /\ error = UnauthorizedMessage
  /\ socket = "open"
  /\ channel = "failed"
  /\ connectionState = "connected"
  /\ StepIs(steps, "queue", "error")
  /\ \E i \in DOMAIN emitted : emitted[i].ev = "channel_error"

\* the fields of the client and the transport objects it has let go of
clientVars ==
  <<socket, channel, heartbeatInterval, connectionState, steps, response, error,
    isConnecting, isCompleted, store, stale, timers, listeners>>

\* C15: disconnect() in any state, before any connect and while a connect is pending
\* included, emits 'disconnected' and returns with the phase disconnected, the
\* connecting flag false, no socket, no channel, no heartbeat and, with persistence,
\* no record; a second disconnect() right after the first changes nothing and emits
\* 'disconnected' again.
C15_DisconnectSafeIdempotent ==
  [][\A sync \in BOOLEAN :
       Disconnect(sync)
         => /\ \E i \in DOMAIN emitted' :
                 emitted'[i].ev = "disconnected" /\ emitted'[i].arg = "Manual disconnect"
            /\ connectionState' = "disconnected"
            /\ ~isConnecting'
            /\ socket' = "null"
            /\ channel' = "null"
            /\ ~heartbeatInterval'
            /\ persist => store' = NoRecord
            /\ last.op = "disconnect" => UNCHANGED clientVars]_vars

\* disconnect() was called while a connect was pending
C15_Witness ==
  /\ last.op = "disconnect"
  /\ last.pre.isConnecting
  /\ last.pre.hasPendingRequest
  /\ ~isConnecting
  /\ socket = "null"
  /\ HasEvent(emitted, "disconnected")

\* C16: disconnect() leaves the completed flag, the stored response, the last error
\* and the step list as they were before the call.
C16_DisconnectKeepsResults ==
  [][\A sync \in BOOLEAN :
       Disconnect(sync) => UNCHANGED <<isCompleted, response, error, steps>>]_vars

\* disconnect() was called on a completed client holding an error and four steps
C16_Witness ==
  /\ last.op = "disconnect"
  /\ isCompleted
  /\ response # NoResponse
  /\ error # Null
  /\ Len(steps) = 4

\* C17: after reset() returns, from any state, the step list is empty, the stored
\* response and the last error are null, the phase is disconnected, the connecting
\* flag is false, there is no socket, channel or heartbeat and, with persistence, no
\* record.
C17_ResetClearsState ==
  last.op = "reset"
    => /\ steps = <<>>
       /\ response = NoResponse
       /\ error = Null
       /\ connectionState = "disconnected"
       /\ ~isConnecting
       /\ socket = "null"
       /\ channel = "null"
       /\ ~heartbeatInterval
       /\ persist => store = NoRecord

\* reset() was called on a completed client
C17_Witness ==
  /\ last.op = "reset"
  /\ last.pre.isCompleted
  /\ steps = <<>>
  /\ response = NoResponse

\* the (event, callback) pairs registered in ls
Registered(ls) == {ls[i] : i \in DOMAIN ls}

\* no element of the sequence occurs twice
NoDuplicate(q) == \A i, j \in DOMAIN q : q[i] = q[j] => i = j

\* C18: destroy() returns with the client in the reset state (no steps, response or
\* error, phase disconnected, not connecting, no socket, channel or heartbeat, no
\* record) and with no registered listener; listeners are registered only by on(), so
\* while none has been registered since, no operation and no transport event, a
\* dropped socket's included, calls any callback.
C18_DestroyLeavesNoListeners ==
  [][/\ \A sync \in BOOLEAN :
          Destroy(sync)
            => /\ listeners' = <<>>
               /\ steps' = <<>> /\ response' = NoResponse /\ error' = Null
               /\ connectionState' = "disconnected" /\ ~isConnecting'
               /\ socket' = "null" /\ channel' = "null" /\ ~heartbeatInterval'
               /\ store' = NoRecord
     /\ last'.op # "on" => Registered(listeners') \subseteq Registered(listeners)
     /\ listeners = <<>> => \A i \in DOMAIN emitted' : emitted'[i].called = <<>>]_vars

\* destroy() was called with two listeners registered for 'disconnected', which its
\* own 'disconnected' event still reached, and left none registered
C18_Witness ==
  /\ last.op = "destroy"
  /\ last.pre.registered >= 2
  /\ listeners = <<>>
  /\ \E i \in DOMAIN emitted :
       emitted[i].ev = "disconnected" /\ Len(emitted[i].called) = 2

\* C19: every emission calls every callback registered for its event, in
\* registration order, whether or not one of them throws, and no exception leaves
\* the operation that emits.
C19_ThrowingListenerIsContained ==
  [][/\ \A i \in DOMAIN emitted' :
          emitted'[i].called = callbacksOf(listeners, emitted'[i].ev)
     /\ ~uncaught']_vars

\* an event was emitted to a callback that throws and then to another callback
C19_Witness ==
  /\ ~uncaught
  /\ \E i \in DOMAIN emitted :
       \E j, k \in DOMAIN emitted[i].called :
         /\ j < k
         /\ throws(emitted[i].called[j])
         /\ ~throws(emitted[i].called[k])

\* C20: the registered pairs form a set: no pair is held twice; on(event, cb) adds
\* its pair and nothing else, and changes nothing when the pair is already there;
\* off(event, cb) and the function on(event, cb) returned remove that pair and nothing
\* else, and change nothing when the pair is not there; an emission calls each
\* callback registered for its event once and no other callback.
C20_ListenersAreAPerEventSet ==
  [][/\ NoDuplicate(listeners')
     /\ last'.op = "on"
          => \A p \in ListenerPairs :
               On(p[1], p[2])
                 => /\ Registered(listeners') = Registered(listeners) \cup {p}
                    /\ p \in Registered(listeners) => listeners' = listeners
     /\ last'.op = "off"
          => \A p \in ListenerPairs :
               Off(p[1], p[2])
                 => /\ Registered(listeners') = Registered(listeners) \ {p}
                    /\ p \notin Registered(listeners) => listeners' = listeners
     /\ last'.op = "unsubscribe"
          => /\ Registered(listeners') = Registered(listeners) \ {handle}
             /\ handle \notin Registered(listeners) => listeners' = listeners
     /\ \A i \in DOMAIN emitted' :
          /\ NoDuplicate(emitted'[i].called)
          /\ {emitted'[i].called[j] : j \in DOMAIN emitted'[i].called}
               = {p[2] : p \in {q \in Registered(listeners) : q[1] = emitted'[i].ev}}]_vars

\* on() was called for a pair that was already registered and left it registered once
C20_Witness ==
  /\ last.op = "on"
  /\ last.pre.registered = Len(listeners)
  /\ handle \in Registered(listeners)
  /\ Len(listeners) >= 2
  /\ NoDuplicate(listeners)

\* C21: with persistence disabled, hasPendingRequest() returns false, reconnect() and
\* reconnectWithBackend() return false, change no field, call connect not once, open
\* no transport and issue no HTTP request, also when the store holds a record written
\* by someone else; and no operation of the client writes or clears the store.
C21_PersistenceOffHasNoSideEffects ==
  [][~persist
       => /\ last'.op \in {"hasPendingRequest", "reconnect", "reconnectWithBackend"}
               => /\ last'.ret = "false"
                  /\ connectCalls' = 0
                  /\ opened' = 0
                  /\ emitted' = <<>>
                  /\ UNCHANGED clientVars
          /\ last'.op # "external.save" => store' = store
          /\ inflight' = 0
          /\ ~getState(Cur).hasPendingRequest]_vars

\* reconnect() returned false without persistence while the store held a record
C21_Witness ==
  /\ ~persist
  /\ store # NoRecord
  /\ last.op = "reconnect"
  /\ last.ret = "false"
  /\ socket = "null"

\* C22 (as stated): whenever reconnectWithBackend() reports false, at the call or when
\* its HTTP request settles, the persisted record, the transport, the phase, the steps
\* and the completed flag are as before and connect was not called.
C22_AssistFailureChangesNothing ==
  [][(last'.op \in {"reconnectWithBackend", "reconnectWithBackend:resume"}
        /\ last'.ret = "false")
       => /\ UNCHANGED clientVars
          /\ connectCalls' = 0
          /\ opened' = 0]_vars

\* C22 (amended): whenever reconnectWithBackend() reports false, at the call or when
\* its HTTP request settles, the transport, the phase, the steps, the completed flag
\* and every other field are as before, connect was not called, and the persisted
\* record is as before except that a record older than the staleness window, which
\* the call loads when persistence and the HTTP base are configured, has been removed.
C22_AssistFailureOnlyDropsStaleRecord ==
  [][(last'.op \in {"reconnectWithBackend", "reconnectWithBackend:resume"}
        /\ last'.ret = "false")
       => /\ UNCHANGED <<socket, channel, heartbeatInterval, connectionState, steps,
                         response, error, isConnecting, isCompleted, stale, timers,
                         listeners>>
          /\ connectCalls' = 0
          /\ opened' = 0
          /\ emitted' = <<>>
          /\ \/ store' = store
             \/ /\ last'.op = "reconnectWithBackend"
                /\ persist /\ apiBaseUrl
                /\ store # NoRecord /\ isStale(store)
                /\ store' = NoRecord]_vars

\* the HTTP request of reconnectWithBackend() failed while a session was connecting
C22_Witness ==
  /\ last.op = "reconnectWithBackend:resume"
  /\ last.ret = "false"
  /\ store # NoRecord
  /\ socket = "opening"
  /\ isConnecting

\* the step that led to this state was the controller moving on: disconnect(),
\* reset() or destroy(), a connect() that was accepted, or a terminal payload handled
MovedOn ==
  \/ last.op \in {"disconnect", "reset", "destroy"}
  \/ last.op = "connect" /\ opened = 1
  \/ last.op = "channel.response" /\ TerminalResponse(emitted)

\* C23: when the controller has moved on while a backend-assist request was in
\* flight and the reply then arrives, the reply is ignored: the persisted record is
\* not written, the transport is neither torn down nor replaced, and connect is not
\* called.
C23_LateAssistReplyIsIgnored ==
  [][(inflight > 0 /\ MovedOn /\ last'.op = "reconnectWithBackend:resume")
       => /\ store' = store
          /\ connectCalls' = 0
          /\ opened' = 0
          /\ UNCHANGED <<socket, channel, stale>>]_vars

\* C24: after a response payload is handled, whatever its status, the stored
\* response is that payload.
C24_StoredResponseIsLastPayload ==
  [][\A src \in Sources, payload \in CorePayloads, sync \in BOOLEAN :
       ChannelResponse(src, payload, "none", sync) => response' = payload]_vars

\* C25: loading the persisted record, as hasPendingRequest() does, returns null and
\* removes the record when the record's age exceeds the requestTimeout the client
\* was constructed with, and returns the record and leaves it in place when its age
\* is within that window; reconnect() on a record older than the window returns
\* false.
C25_StalenessFollowsRequestTimeout ==
  [][(persist /\ store # NoRecord)
       => /\ last'.op = "hasPendingRequest"
               => IF now - store.timestamp > requestTimeout
                    THEN last'.ret = "false" /\ store' = NoRecord
                    ELSE last'.ret = "true" /\ store' = store
          /\ (last'.op = "reconnect" /\ now - store.timestamp > requestTimeout)
               => last'.ret = "false" /\ opened' = 0]_vars

\* C26: updateStep(steps, id, updates) returns a list of the same length and order
\* as steps in which every entry with another id is the entry of steps and the entry
\* with the id has the fields of updates over its own; with no entry of that id the
\* result equals steps; and steps is as it was before the call.
C26_UpdateStepMergesOneEntry ==
  [][UpdateStepCall
       => LET ss == util.steps
              r == util'.result
          IN /\ util'.steps = ss
             /\ Len(r) = Len(ss)
             /\ \A i \in DOMAIN ss :
                  IF ss[i].id # util.id THEN r[i] = ss[i]
                  ELSE /\ DOMAIN r[i] = DOMAIN ss[i]
                       /\ \A f \in DOMAIN r[i] :
                            r[i][f] = IF f \in DOMAIN util.updates
                                        THEN util.updates[f] ELSE ss[i][f]
             /\ (\A i \in DOMAIN ss : ss[i].id # util.id) => r = ss]_vars

\* updateStep changed the status of the second of two entries and kept the first
C26_Witness ==
  /\ util.fn = "updateStep"
  /\ util.called
  /\ Len(util.steps) = 2
  /\ util.steps[2].id = util.id
  /\ util.steps[1].id # util.id
  /\ util.result[1] = util.steps[1]
  /\ util.result[2].status = "error"
  /\ util.steps[2].status = "success"

\* C27: isTokenExpired is false for a payload without exp, false when exp (seconds,
\* times 1000) is after the current time in milliseconds, and true when it is before
\* the current time, for every exp from 0 up.
C27_ExpiryComparedWithClock ==
  (util.fn = "isTokenExpired" /\ util.called)
    => /\ ~util.payload.hasExp => ~util.result
       /\ (util.payload.hasExp /\ util.payload.exp * 1000 > util.clock) => ~util.result
       /\ (util.payload.hasExp /\ util.payload.exp * 1000 < util.clock) => util.result

\* C29: with persistence, when a terminal payload (completed, success or failure) is
\* handled, no record is in the store at the moment the 'response' event reaches the
\* listeners, and a reconnect() called by a 'response' listener returns false, calls
\* connect not once and opens no transport.
C29_RecordClearedBeforeResponseEvent ==
  (persist /\ last.op = "channel.response" /\ TerminalResponse(emitted))
    => /\ \A i \in DOMAIN emitted :
            /\ emitted[i].ev = "response" => ~emitted[i].pending
            /\ emitted[i].ev = "listener:reconnect" => emitted[i].arg = "false"
       /\ connectCalls = 0
       /\ opened = 0
       /\ store = NoRecord

\* a failure payload was handled while a record was stored, and the listener's
\* reconnect() returned false
C29_Witness ==
  /\ persist
  /\ last.op = "channel.response"
  /\ last.pre.hasPendingRequest
  /\ ~isCompleted
  /\ ProcessFailed
  /\ \E i \in DOMAIN emitted : emitted[i].ev = "response" /\ ~emitted[i].pending
  /\ \E i \in DOMAIN emitted :
       emitted[i].ev = "listener:reconnect" /\ emitted[i].arg = "false"

\* C30: when the socket the client holds reports an error, the phase becomes error,
\* the connecting flag false, the last error the generic transport message, the queue
\* step (when there is one) is marked error, an 'error' event is emitted, and the
\* heartbeat timer is stopped.
C30_TransportErrorStopsHeartbeat ==
  [][SocketError("current")
       => /\ connectionState' = "error"
          /\ ~isConnecting'
          /\ error' = "WebSocket connection error"
          /\ \A i \in DOMAIN steps' : steps'[i].id = "queue" => steps'[i].status = "error"
          /\ \E i \in DOMAIN emitted' :
               emitted'[i].ev = "error" /\ emitted'[i].arg = "WebSocket connection error"
          /\ ~heartbeatInterval']_vars

\* C31: at most one heartbeat timer is running; when an accepted connect, a
\* disconnect, a reset, a destroy, the handling of a terminal payload or a transport
\* close has run, no heartbeat timer is running; and a heartbeat timer is started only
\* by a successful channel join.
C31_HeartbeatStoppedByTeardown ==
  [][ /\ intervals' <= 1
      /\ (last'.op \in {"disconnect", "reset", "destroy", "socket.onClose"})
           => intervals' = 0
      /\ (last'.op = "connect" /\ opened' > 0) => intervals' = 0
      /\ (last'.op = "channel.response" /\ TerminalResponse(emitted'))
           => intervals' = 0
      /\ (intervals' > intervals) => last'.op = "join.ok" ]_vars

\* C32: handling an error message of the channel sets the last error to the message
\* ('An error occurred' for an empty one), marks the process step (when there is one)
\* error with that message and leaves the other steps alone, emits 'error' with the
\* message, clears the record with persistence and leaves the store alone without,
\* and leaves the socket, the channel, the heartbeat, the phase, the stored response
\* and the completed flag as they were.
C32_ChannelErrorReportsAndKeepsSession ==
  [][ (last'.op = "channel.error")
        => /\ error' = "An error occurred"
           /\ Len(steps') = Len(steps)
           /\ \A i \in DOMAIN steps :
                IF steps[i].id = "process"
                  THEN /\ steps'[i].id = "process"
                       /\ steps'[i].status = "error"
                       /\ steps'[i].errorMessage = "An error occurred"
                  ELSE steps'[i] = steps[i]
           /\ \E i \in DOMAIN emitted' :
                emitted'[i].ev = "error" /\ emitted'[i].arg = "An error occurred"
           /\ persist => store' = NoRecord
           /\ ~persist => store' = store
           /\ UNCHANGED <<socket, channel, stale, heartbeatInterval, intervals,
                          connectionState, response, isCompleted>> ]_vars

\* an error message handled on a joined session with a stored record
C32_Witness ==
  /\ last.op = "channel.error"
  /\ persist
  /\ last.pre.hasPendingRequest
  /\ store = NoRecord
  /\ socket = "open"
  /\ channel = "joined"
  /\ heartbeatInterval
  /\ StepIs(steps, "process", "error")

\* C33: whenever the phase is connected the client holds a socket; and when a socket
\* other than the one the client holds (one it has torn down) reports open, the phase
\* is not connected afterwards, no 'connected' event is emitted and no channel is
\* joined.
C33_ConnectedHasTransport ==
  /\ connectionState = "connected" => socket # "null"
  /\ (last.op = "socket.onOpen" /\ socket # "open")
       => /\ connectionState # "connected"
          /\ ~HasEvent(emitted, "connected")
          /\ channel # "joining"

\* C34: while the client holds the socket of a newer session, the close report of a
\* socket it has torn down and replaced changes neither the connecting flag nor the
\* phase and does not stop the heartbeat.
C34_StaleCloseLeavesNewSession ==
  [][ (last'.op = "socket.onClose" /\ socket \in {"opening", "open"} /\ socket' = socket)
        => UNCHANGED <<isConnecting, connectionState, heartbeatInterval, intervals>> ]_vars

\* C35: while the client holds the socket of a newer session whose channel is not
\* joined yet, a response or error payload (which can then only come from the channel
\* of a previous session) leaves the completed flag, the persisted record, the steps
\* and the socket as they were.
C35_StalePayloadLeavesNewSession ==
  [][ (/\ last'.op \in {"channel.response", "channel.error"}
       /\ socket \in {"opening", "open"}
       /\ channel # "joined")
        => /\ isCompleted' = isCompleted
           /\ store' = store
           /\ steps' = steps
           /\ socket' = socket ]_vars

\* C36: when a 'response' listener calls connect() with a valid request while a
\* terminal payload is handled and that connect is accepted, then on return from the
\* handling the client holds the socket that connect created and the record it saved.
C36_ListenerConnectSurvives ==
  (last.op = "channel.response" /\ TerminalResponse(emitted) /\ opened > 0)
    => /\ socket = "opening"
       /\ store # NoRecord

\* C37: whenever reconnect() has returned true, the connect it made was accepted: a
\* 'connecting' event was emitted and a socket was created during the call.
C37_ReconnectTrueMeansStarted ==
  (last.op = "reconnect" /\ last.ret = "true")
    => /\ HasEvent(emitted, "connecting")
       /\ opened > 0

\* the ids of a step list, in order
StepIdsOf(ss) == [i \in DOMAIN ss |-> ss[i].id]

\* C38: the step list is empty, or the four steps queue, process, receive, complete
\* in that order, or those four followed by one 'backend' step.
C38_StepListShape ==
  \/ steps = <<>>
  \/ StepIdsOf(steps) = <<"queue", "process", "receive", "complete">>
  \/ StepIdsOf(steps) = <<"queue", "process", "receive", "complete", "backend">>

\* C39: the connecting flag is set only while the client holds a socket, whose open,
\* error or close report will clear it.
C39_ConnectingHasTransport == isConnecting => socket # "null"

====
